---- MODULE Spec2Model ----
(***************************************************************************)
(* ZipChunkProvider (src/src/zip_chunk_provider.rs): an Anvil chunk        *)
(* provider that reads region files out of a zip archive, caching each     *)
(* uncompressed region file by region coordinate.                          *)
(*                                                                         *)
(* Strings are sequences of one-character strings, byte buffers are        *)
(* sequences of small naturals.  The zip archive is the sequence of its    *)
(* entries in central-directory order.  The archives of the model are      *)
(* those ZipArchive::new and by_index accept (the unwrap()s of lines 22    *)
(* and 27).                                                                *)
(***************************************************************************)
EXTENDS Integers, Sequences, FiniteSets, TLC

\* zip_archive, region_prefix, cache: the fields of ZipChunkProvider
\* pstate: "unbuilt", "live" (new returned a provider) or "panicked"
\* last: the last operation called, what it did and what it returned
\* readLog: for each region read in full, the bytes read_to_end delivered
\* ncalls, ncorrupt: number of calls made and of changes made to the archive
VARIABLES zip_archive, pstate, region_prefix, cache, last, readLog, ncalls,
          ncorrupt

vars == <<zip_archive, pstate, region_prefix, cache, last, readLog, ncalls,
          ncorrupt>>

(***************************************************************************)
(* Bounds of the model.                                                    *)
(***************************************************************************)
MaxEntries == 3
MaxCalls == 3
MaxCorrupt == 1
MaxCoord == 40

(***************************************************************************)
(* Strings.                                                                *)
(***************************************************************************)
S_region == <<"r", "e", "g", "i", "o", "n">>
S_slash == <<"/">>
S_w == <<"w">>
S_b == <<"b">>
S_r00 == <<"r", ".", "0", ".", "0", ".", "m", "c", "a">>
S_rm10 == <<"r", ".", "-", "1", ".", "0", ".", "m", "c", "a">>

DigitChars == <<"0", "1", "2", "3", "4", "5", "6", "7", "8", "9">>

RECURSIVE Digits(_)
Digits(n) ==
    IF n < 10 THEN <<DigitChars[n + 1]>>
    ELSE Digits(n \div 10) \o <<DigitChars[(n % 10) + 1]>>

\* Display of an i32 as format!("{}") writes it
DisplayI32(i) == IF i < 0 THEN <<"-">> \o Digits(0 - i) ELSE Digits(i)

EndsWithSlash(s) == Len(s) > 0 /\ s[Len(s)] = "/"

(***************************************************************************)
(* ZipFile::sanitized_name() and Path::file_name() as used by new().       *)
(***************************************************************************)
ReplaceBackslash(s) == [i \in 1..Len(s) |-> IF s[i] = "\\" THEN "/" ELSE s[i]]

RECURSIVE SplitPath(_)
SplitPath(s) ==
    IF s = <<>> THEN << <<>> >>
    ELSE LET rest == SplitPath(Tail(s))
         IN  IF Head(s) = "/" THEN << <<>> >> \o rest
             ELSE << <<Head(s)>> \o Head(rest) >> \o Tail(rest)

NormalComponent(c) == c # <<>> /\ c # <<".">> /\ c # <<".", ".">>

\* the path made of the Normal components of the entry name
sanitized_name(name) == SelectSeq(SplitPath(ReplaceBackslash(name)), NormalComponent)

None == <<"<none>">>

\* Path::file_name: the final component, if there is one
file_name(path) == IF Len(path) = 0 THEN None ELSE path[Len(path)]

IsRegionEntry(name) == file_name(sanitized_name(name)) = S_region

(***************************************************************************)
(* The archives: entry names, the bytes an entry uncompresses to and the   *)
(* uncompressed size its header declares.                                  *)
(***************************************************************************)
N_region_dir == S_region \o S_slash
N_w_dir == S_w \o S_slash
N_w_region_dir == S_w \o S_slash \o S_region \o S_slash
N_b_region_dir == S_b \o S_slash \o S_region \o S_slash
N_w_region_file == S_w \o S_slash \o S_region
N_w_r00 == N_w_region_dir \o S_r00
N_w_rm10 == N_w_region_dir \o S_rm10

EntryNames ==
    {N_region_dir, N_w_dir, N_w_region_dir, N_b_region_dir, N_w_region_file,
     N_w_r00, N_w_rm10}

\* region r.0.0: slot 0 holds a chunk, slot 1 is empty
\* region r.-1.0: slot 0 points past the end, slot 1 holds a chunk
DataOf(name) ==
    IF name = N_w_r00 THEN <<1, 0, 7>>
    ELSE IF name = N_w_rm10 THEN <<2, 1, 8>>
    ELSE <<>>

\* the declared size is a hint: too small for r.0.0, too large for r.-1.0
SizeOf(name) ==
    IF name = N_w_r00 THEN 1
    ELSE IF name = N_w_rm10 THEN 5
    ELSE 0

Entry(name) == [name |-> name, data |-> DataOf(name), size |-> SizeOf(name)]

CorruptData == {<<>>, <<2, 2, 9>>}

RECURSIVE SeqsUpTo(_, _)
SeqsUpTo(S, n) ==
    IF n = 0 THEN {<<>>}
    ELSE LET shorter == SeqsUpTo(S, n - 1)
         IN  shorter \cup
             {Append(s, x) : s \in {t \in shorter : Len(t) = n - 1}, x \in S}

Distinct(s) == \A i, j \in 1..Len(s) : i # j => s[i] # s[j]

Listings == {s \in SeqsUpTo(EntryNames, MaxEntries) : Distinct(s)}

Archives == {[i \in 1..Len(s) |-> Entry(s[i])] : s \in Listings}

(***************************************************************************)
(* The zip archive collaborator.                                           *)
(***************************************************************************)
\* ZipArchive::by_name: index of the entry of that name (the last one when
\* several have it), 0 when there is none
ByName(archive, name) ==
    LET idx == {i \in 1..Len(archive) : archive[i].name = name}
    IN  IF idx = {} THEN 0 ELSE CHOOSE i \in idx : \A j \in idx : j <= i

\* Read::read_to_end into the fresh buffer: failAt = -1 reads everything,
\* failAt = k fails after k bytes have been appended
ReadToEnd(data, failAt) ==
    IF failAt < 0 THEN [ok |-> TRUE, buf |-> data]
    ELSE [ok |-> FALSE, buf |-> SubSeq(data, 1, failAt)]

\* Vec::with_capacity(uncompressed_size): an empty buffer
WithCapacity(size) == <<>>

ReadEntry_exactSize(file, failAt) ==
    LET rd == ReadToEnd(file.data, failAt)
        n == IF file.size < Len(rd.buf) THEN file.size ELSE Len(rd.buf)
    IN  [ok |-> rd.ok,
         buf |-> SubSeq(rd.buf, 1, n) \o [i \in 1..(file.size - n) |-> 0]]

\* let uncompressed_size = region_file.size();
\* buf = Vec::with_capacity(uncompressed_size as usize);
\* region_file.read_to_end(&mut buf)
ReadEntry(file, failAt) ==
    LET rd == ReadToEnd(file.data, failAt)
    IN  [ok |-> rd.ok, buf |-> WithCapacity(file.size) \o rd.buf]

(***************************************************************************)
(* Results of the operations.                                              *)
(***************************************************************************)
Res(kind, x, z, tag) == [kind |-> kind, x |-> x, z |-> z, tag |-> tag]

NoResult == Res("None", 0, 0, 0)

(***************************************************************************)
(* The crate's RegionAndOffset and AnvilRegion.                            *)
(***************************************************************************)
ChunksPerSide == 32
HeaderSlots == 2

FromChunk_trunc(chunk_x, chunk_z) ==
    LET tdiv(a) == IF a < 0 THEN 0 - ((0 - a) \div ChunksPerSide)
                   ELSE a \div ChunksPerSide
    IN  [region_x |-> tdiv(chunk_x),
         region_z |-> tdiv(chunk_z),
         region_chunk_x |-> chunk_x - tdiv(chunk_x) * ChunksPerSide,
         region_chunk_z |-> chunk_z - tdiv(chunk_z) * ChunksPerSide]

FromChunk(chunk_x, chunk_z) ==
    [region_x |-> chunk_x \div ChunksPerSide,
     region_z |-> chunk_z \div ChunksPerSide,
     region_chunk_x |-> chunk_x % ChunksPerSide,
     region_chunk_z |-> chunk_z % ChunksPerSide]

\* AnvilRegion::new over a cursor on the buffer
AnvilRegionNew(buf) == Len(buf) >= HeaderSlots

\* AnvilRegion::read_chunk
ReadChunk(buf, region_chunk_x, region_chunk_z) ==
    LET slot == ((region_chunk_x + ChunksPerSide * region_chunk_z) % HeaderSlots) + 1
        loc == buf[slot]
    IN  IF loc = 0 THEN Res("ChunkNotFound", region_chunk_x, region_chunk_z, 0)
        ELSE IF HeaderSlots + loc > Len(buf)
             THEN Res("ReadError", 0, 0, 0)
             ELSE Res("Ok", 0, 0, buf[HeaderSlots + loc])

(***************************************************************************)
(* ZipChunkProvider::new                                                   *)
(***************************************************************************)
DefaultPrefix == S_region \o S_slash

\* the loop over the first n entries of the archive
RECURSIVE ScanEntries(_, _)
ScanEntries(archive, n) ==
    IF n = 0 THEN [found_region_count |-> 0, region_prefix |-> DefaultPrefix]
    ELSE LET acc == ScanEntries(archive, n - 1)
             file == archive[n]
         IN  IF IsRegionEntry(file.name)
             THEN [found_region_count |-> acc.found_region_count + 1,
                   region_prefix |-> file.name]
             ELSE acc

NewOutcome_noZeroCheck(found_region_count) ==
    IF found_region_count > 1 THEN "AmbiguousRegionFolder" ELSE "Ok"

NewOutcome_noManyCheck(found_region_count) ==
    IF found_region_count = 0 THEN "NoRegionFolderFound" ELSE "Ok"

\* the two panics after the loop
NewOutcome(found_region_count) ==
    IF found_region_count = 0 THEN "NoRegionFolderFound"
    ELSE IF found_region_count > 1 THEN "AmbiguousRegionFolder"
    ELSE "Ok"

EmptyCache == [k \in {} |-> <<>>]

New ==
    /\ pstate = "unbuilt"
    /\ LET scan == ScanEntries(zip_archive, Len(zip_archive))
           outcome == NewOutcome(scan.found_region_count)
       IN  /\ last' = [last EXCEPT !.op = "new", !.result = Res(outcome, 0, 0, 0)]
           /\ IF outcome = "Ok"
              THEN /\ pstate' = "live"
                   /\ region_prefix' = scan.region_prefix
                   /\ cache' = EmptyCache
              ELSE /\ pstate' = "panicked"
                   /\ UNCHANGED <<region_prefix, cache>>
    /\ UNCHANGED <<zip_archive, readLog, ncalls, ncorrupt>>

(***************************************************************************)
(* ZipChunkProvider::region_path                                           *)
(***************************************************************************)
region_path_swapped(prefix, region_x, region_z) ==
    prefix \o <<"r", ".">> \o DisplayI32(region_z) \o <<".">>
           \o DisplayI32(region_x) \o <<".", "m", "c", "a">>

region_path(prefix, region_x, region_z) ==
    prefix \o <<"r", ".">> \o DisplayI32(region_x) \o <<".">>
           \o DisplayI32(region_z) \o <<".", "m", "c", "a">>

(***************************************************************************)
(* ZipChunkProvider::load_chunk                                            *)
(***************************************************************************)
\* let RegionAndOffset { .. } = RegionAndOffset::from_chunk(chunk_x, chunk_z)
Translate(chunk_x, chunk_z) == FromChunk(chunk_x, chunk_z)

CacheGet_anyKey(c, key) ==
    IF DOMAIN c = {} THEN [some |-> FALSE, buf |-> <<>>]
    ELSE [some |-> TRUE, buf |-> c[CHOOSE k \in DOMAIN c : TRUE]]

CacheGet_neverHit(c, key) == [some |-> FALSE, buf |-> <<>>]

\* self.cache.get_mut(&(region_x, region_z))
CacheGet(c, key) ==
    IF key \in DOMAIN c THEN [some |-> TRUE, buf |-> c[key]]
    ELSE [some |-> FALSE, buf |-> <<>>]

CacheInsert_single(c, key, buf) == [k \in {key} |-> buf]

CacheInsert_wrongKey(c, key, buf) ==
    [k \in DOMAIN c \cup {<<key[2], key[1]>>} |->
        IF k = <<key[2], key[1]>> THEN buf ELSE c[k]]

CacheInsert_empty(c, key, buf) ==
    [k \in DOMAIN c \cup {key} |-> IF k = key THEN <<>> ELSE c[k]]

\* self.cache.insert((region_x, region_z), buf.clone())
CacheInsert(c, key, buf) ==
    [k \in DOMAIN c \cup {key} |-> IF k = key THEN buf ELSE c[k]]

NotFoundResult_chunkCoords(chunk_x, chunk_z, region_x, region_z) ==
    Res("RegionNotFound", chunk_x, chunk_z, 0)

\* Err(ChunkLoadError::RegionNotFound { region_x, region_z })
NotFoundResult(chunk_x, chunk_z, region_x, region_z) ==
    Res("RegionNotFound", region_x, region_z, 0)

AfterRead_insertFirst(c, key, rd) ==
    [cache |-> CacheInsert(c, key, rd.buf), done |-> rd.ok]

AfterRead_insertIfValid(c, key, rd) ==
    IF rd.ok
    THEN [cache |-> IF AnvilRegionNew(rd.buf) THEN CacheInsert(c, key, rd.buf)
                    ELSE c,
          done |-> TRUE]
    ELSE [cache |-> c, done |-> FALSE]

\* region_file.read_to_end(&mut buf)?; self.cache.insert(..)
AfterRead(c, key, rd) ==
    IF rd.ok THEN [cache |-> CacheInsert(c, key, rd.buf), done |-> TRUE]
    ELSE [cache |-> c, done |-> FALSE]

ReadRegion_hidesEmptySlot(buf, region_chunk_x, region_chunk_z) ==
    IF AnvilRegionNew(buf)
    THEN LET r == ReadChunk(buf, region_chunk_x, region_chunk_z)
         IN  IF r.kind = "ChunkNotFound"
             THEN Res("RegionNotFound", region_chunk_x, region_chunk_z, 0)
             ELSE r
    ELSE Res("IoError", 0, 0, 0)

\* AnvilRegion::new(Cursor::new(buf))?; region.read_chunk(..)
ReadRegion(buf, region_chunk_x, region_chunk_z) ==
    IF AnvilRegionNew(buf) THEN ReadChunk(buf, region_chunk_x, region_chunk_z)
    ELSE Res("IoError", 0, 0, 0)

\* One call of load_chunk on the provider (prefix, c) over the archive.
\* openOk: whether by_name can open an entry of that name; failAt: where
\* read_to_end fails (-1: nowhere).  lookups and reads count the calls of
\* by_name and of read_to_end.
LoadOutcome(prefix, c, archive, chunk_x, chunk_z, openOk, failAt) ==
    LET ro == Translate(chunk_x, chunk_z)
        key == <<ro.region_x, ro.region_z>>
        got == CacheGet(c, key)
        base == [ro |-> ro, hit |-> got.some, lookups |-> 0, reads |-> 0,
                 readOk |-> FALSE, cache |-> c, result |-> NoResult,
                 path |-> <<>>]
    IN  IF got.some
        THEN [base EXCEPT !.result =
                 ReadRegion(got.buf, ro.region_chunk_x, ro.region_chunk_z)]
        ELSE LET path == region_path(prefix, ro.region_x, ro.region_z)
                 idx == ByName(archive, path)
             IN  IF idx = 0 \/ ~openOk
                 THEN [base EXCEPT !.lookups = 1, !.path = path, !.result =
                          NotFoundResult(chunk_x, chunk_z, ro.region_x, ro.region_z)]
                 ELSE LET rd == ReadEntry(archive[idx], failAt)
                          ar == AfterRead(c, key, rd)
                      IN  IF ~ar.done
                          THEN [base EXCEPT !.lookups = 1, !.reads = 1,
                                            !.path = path,
                                            !.cache = ar.cache,
                                            !.result = Res("IoError", 0, 0, 0)]
                          ELSE [base EXCEPT !.lookups = 1, !.reads = 1,
                                            !.path = path,
                                            !.readOk = TRUE,
                                            !.cache = ar.cache,
                                            !.result = ReadRegion(rd.buf,
                                                ro.region_chunk_x, ro.region_chunk_z)]

NoCall ==
    [op |-> "none", chunk_x |-> 0, chunk_z |-> 0, ro |-> FromChunk(0, 0),
     hit |-> FALSE, lookups |-> 0, reads |-> 0, readOk |-> FALSE,
     result |-> NoResult, prevSame |-> FALSE, prevReads |-> 0,
     prevReadOk |-> FALSE, path |-> <<>>]

\* whether the call before this one was a load_chunk of the region `key`
PrevSame(key) ==
    last.op = "load" /\ <<last.ro.region_x, last.ro.region_z>> = key

\* the entry a call for the region `key` finds by name: 0 when the region is
\* cached or the archive has no such entry
EntryFor(key) ==
    IF CacheGet(cache, key).some THEN 0
    ELSE ByName(zip_archive, region_path(region_prefix, key[1], key[2]))

\* the points where reading `data` may fail
FailPoints(data) == -1..(Len(data) - 1)

LoadChunk(chunk_x, chunk_z) ==
    /\ pstate = "live"
    /\ ncalls < MaxCalls
    /\ LET ro == Translate(chunk_x, chunk_z)
           key == <<ro.region_x, ro.region_z>>
           idx == EntryFor(key)
       IN  \E openOk \in IF idx = 0 THEN {TRUE} ELSE BOOLEAN :
           \E failAt \in IF idx = 0 \/ ~openOk THEN {-1}
                          ELSE FailPoints(zip_archive[idx].data) :
             LET out == LoadOutcome(region_prefix, cache, zip_archive,
                                    chunk_x, chunk_z, openOk, failAt)
             IN  /\ cache' = out.cache
                 /\ last' = [op |-> "load", chunk_x |-> chunk_x,
                             chunk_z |-> chunk_z,
                             ro |-> out.ro, hit |-> out.hit,
                             lookups |-> out.lookups, reads |-> out.reads,
                             readOk |-> out.readOk, result |-> out.result,
                             prevSame |-> PrevSame(key),
                             prevReads |-> last.reads,
                             prevReadOk |-> last.readOk,
                             path |-> out.path]
                 /\ readLog' = IF out.readOk
                               THEN [k \in DOMAIN readLog \cup {key} |->
                                       IF k = key THEN zip_archive[idx].data
                                       ELSE readLog[k]]
                               ELSE readLog
    /\ ncalls' = ncalls + 1
    /\ UNCHANGED <<zip_archive, pstate, region_prefix, ncorrupt>>

(***************************************************************************)
(* ZipChunkProvider::save_chunk                                            *)
(***************************************************************************)
SaveOutcome_ok(c, chunk_x, chunk_z, tag) ==
    [cache |-> c, result |-> Res("Ok", 0, 0, 0)]

SaveOutcome_writesCache(c, chunk_x, chunk_z, tag) ==
    [cache |-> [k \in DOMAIN c |-> Append(c[k], tag)],
     result |-> Res("PanicWriteUnsupported", 0, 0, 0)]

\* panic!("Writing to ZIP archives is not supported")
SaveOutcome(c, chunk_x, chunk_z, tag) ==
    [cache |-> c, result |-> Res("PanicWriteUnsupported", 0, 0, 0)]

SaveChunk(chunk_x, chunk_z, tag) ==
    /\ pstate = "live"
    /\ ncalls < MaxCalls
    /\ LET out == SaveOutcome(cache, chunk_x, chunk_z, tag)
       IN  /\ cache' = out.cache
           /\ last' = [NoCall EXCEPT !.op = "save", !.chunk_x = chunk_x,
                                     !.chunk_z = chunk_z, !.result = out.result]
    /\ ncalls' = ncalls + 1
    /\ UNCHANGED <<zip_archive, pstate, region_prefix, readLog, ncorrupt>>

(***************************************************************************)
(* The environment: the bytes of a region entry change under the provider. *)
(***************************************************************************)
Corrupt(i, d) ==
    /\ pstate = "live"
    /\ ncorrupt < MaxCorrupt
    /\ i \in 1..Len(zip_archive)
    /\ zip_archive[i].data # <<>>
    /\ zip_archive[i].data # d
    /\ zip_archive' = [zip_archive EXCEPT ![i].data = d]
    /\ ncorrupt' = ncorrupt + 1
    /\ UNCHANGED <<pstate, region_prefix, cache, last, readLog, ncalls>>

(***************************************************************************)
(* Specifications.                                                         *)
(***************************************************************************)
ChunkCoords == {<<0, 0>>, <<1, 0>>, <<32, 0>>, <<-1, 0>>, <<-32, 0>>, <<0, -1>>}

Tags == {5, 6}

Init ==
    /\ zip_archive \in Archives
    /\ pstate = "unbuilt"
    /\ region_prefix = None
    /\ cache = EmptyCache
    /\ last = NoCall
    /\ readLog = EmptyCache
    /\ ncalls = 0
    /\ ncorrupt = 0

Next ==
    \/ New
    \/ \E c \in ChunkCoords : LoadChunk(c[1], c[2])
    \/ \E c \in ChunkCoords, tag \in Tags : SaveChunk(c[1], c[2], tag)
    \/ \E i \in 1..MaxEntries, d \in CorruptData : Corrupt(i, d)

Spec == Init /\ [][Next]_vars

\* every chunk coordinate of a square around the origin, one archive
WideCoords == (0 - MaxCoord)..MaxCoord

InitWide ==
    /\ Init
    /\ zip_archive = <<Entry(N_w_region_dir), Entry(N_w_r00)>>

NextWide ==
    \/ New
    \/ /\ ncalls = 0
       /\ \E chunk_x \in WideCoords, chunk_z \in WideCoords :
            LoadChunk(chunk_x, chunk_z)

SpecWide == InitWide /\ [][NextWide]_vars
(***************************************************************************)
(* A caller of the public region_path, next to load_chunk.                 *)
(***************************************************************************)
MaxRegion == 123

PathCoords == {-2147483647, 0 - MaxRegion, -1, 0, 10, MaxRegion}

RegionPathCall(region_x, region_z) ==
    /\ pstate = "live"
    /\ ncalls < MaxCalls
    /\ last' = [NoCall EXCEPT !.op = "region_path",
                              !.ro.region_x = region_x,
                              !.ro.region_z = region_z,
                              !.path = region_path(region_prefix, region_x,
                                                   region_z)]
    /\ ncalls' = ncalls + 1
    /\ UNCHANGED <<zip_archive, pstate, region_prefix, cache, readLog, ncorrupt>>

InitPath ==
    /\ Init
    /\ Len(zip_archive) > 0
    /\ zip_archive[1].name \in {N_region_dir, N_w_region_dir, N_w_region_file}

NextPath ==
    \/ New
    \/ \E c \in ChunkCoords : LoadChunk(c[1], c[2])
    \/ \E region_x \in PathCoords, region_z \in PathCoords :
          RegionPathCall(region_x, region_z)

SpecPath == InitPath /\ [][NextPath]_vars

(***************************************************************************)
(* Properties.                                                             *)
(***************************************************************************)
LastKey == <<last.ro.region_x, last.ro.region_z>>

IsLoad == last.op = "load"

\* the step is a call of load_chunk, resp. of save_chunk
LoadStep == ncalls' = ncalls + 1 /\ last'.op = "load"
SaveStep == ncalls' = ncalls + 1 /\ last'.op = "save"

\* the entry names whose final path component is `region`
RegionNamed == {N_region_dir, N_w_region_dir, N_b_region_dir, N_w_region_file}

RegionEntries == {i \in 1..Len(zip_archive) : zip_archive[i].name \in RegionNamed}

\* C1: load_chunk resolves (cx, cz) to region floor(cx/32), floor(cz/32) and
\* to the offsets cx - region_x*32, cz - region_z*32, both in [0, 32);
\* cx = -1 gives region_x = -1 and region_chunk_x = 31.
C1_FloorTranslation ==
    IsLoad =>
        /\ last.ro.region_x * 32 <= last.chunk_x
        /\ last.chunk_x < (last.ro.region_x + 1) * 32
        /\ last.ro.region_z * 32 <= last.chunk_z
        /\ last.chunk_z < (last.ro.region_z + 1) * 32
        /\ last.ro.region_chunk_x = last.chunk_x - last.ro.region_x * 32
        /\ last.ro.region_chunk_z = last.chunk_z - last.ro.region_z * 32
        /\ last.ro.region_chunk_x \in 0..31
        /\ last.ro.region_chunk_z \in 0..31
        /\ (last.chunk_x = -1 =>
               last.ro.region_x = -1 /\ last.ro.region_chunk_x = 31)

C1_Witness ==
    /\ IsLoad
    /\ last.chunk_x = -1 /\ last.ro.region_x = -1 /\ last.ro.region_chunk_x = 31
    /\ last.chunk_z = -33 /\ last.ro.region_z = -2 /\ last.ro.region_chunk_z = 31

\* C2 as stated: two consecutive load_chunk calls of the same region call
\* read_to_end on the region entry at most once in total.
C2_AtMostOneRead ==
    (IsLoad /\ last.prevSame) => last.prevReads + last.reads <= 1

\* C2 amended: two consecutive load_chunk calls of the same region read the
\* region entry at most once in total unless the read of the first call
\* failed; a cache hit looks up and reads nothing in the archive.
C2_AtMostOneReadUnlessFailed ==
    /\ (IsLoad /\ last.prevSame /\ (last.prevReads = 1 => last.prevReadOk))
          => last.prevReads + last.reads <= 1
    /\ (IsLoad /\ last.hit) => (last.lookups = 0 /\ last.reads = 0)

C2_Witness ==
    /\ IsLoad /\ last.prevSame
    /\ last.prevReads = 1 /\ last.prevReadOk
    /\ last.hit /\ last.lookups = 0 /\ last.reads = 0

\* C3: a load_chunk of a region that an earlier call cached returns what the
\* region reader gives on the bytes read then, whatever the archive holds
\* for that entry now.
C3_HitServedFromSnapshot ==
    (IsLoad /\ last.hit) =>
        /\ LastKey \in DOMAIN readLog
        /\ last.result = ReadRegion(readLog[LastKey], last.ro.region_chunk_x,
                                    last.ro.region_chunk_z)

C3_Witness ==
    /\ IsLoad /\ last.hit /\ last.result.kind = "Ok"
    /\ ncorrupt = 1
    /\ \E i \in 1..Len(zip_archive) :
          /\ zip_archive[i].name =
                region_path(region_prefix, LastKey[1], LastKey[2])
          /\ zip_archive[i].data # readLog[LastKey]
          /\ ReadRegion(zip_archive[i].data, last.ro.region_chunk_x,
                        last.ro.region_chunk_z) # last.result

\* C4: when the archive has no entry of the region's name, load_chunk returns
\* RegionNotFound with that region's coordinates; with only
\* w/region/r.0.0.mca there, load_chunk(32, 0) returns RegionNotFound{1, 0}.
C4_RegionNotFound ==
    /\ (IsLoad /\ \A i \in 1..Len(zip_archive) : zip_archive[i].name #
            region_path(region_prefix, last.ro.region_x, last.ro.region_z))
          => last.result = Res("RegionNotFound", last.ro.region_x,
                               last.ro.region_z, 0)
    /\ (IsLoad /\ last.chunk_x = 32 /\ last.chunk_z = 0)
          => last.result = Res("RegionNotFound", 1, 0, 0)

C4_Witness ==
    /\ IsLoad /\ last.chunk_x = 32 /\ last.chunk_z = 0
    /\ region_prefix = N_w_region_dir
    /\ \E i \in 1..Len(zip_archive) : zip_archive[i].name = N_w_r00
    /\ last.result = Res("RegionNotFound", 1, 0, 0)

\* C5: save_chunk always ends in the panic "Writing to ZIP archives is not
\* supported": it returns neither Ok nor an Err(ChunkSaveError).
C5_SaveAlwaysUnsupported ==
    last.op = "save" =>
        /\ last.result.kind = "PanicWriteUnsupported"
        /\ last.result.kind \notin {"Ok", "ChunkSaveError"}

C5_Witness ==
    /\ last.op = "save" /\ last.chunk_x = -32
    /\ last.result.kind = "PanicWriteUnsupported"
    /\ ncalls = MaxCalls

\* C6: save_chunk leaves the cached regions, their bytes and the region
\* prefix as they were.
C6_SaveChangesNothing ==
    [][SaveStep =>
          /\ DOMAIN cache' = DOMAIN cache
          /\ \A k \in DOMAIN cache : cache'[k] = cache[k]
          /\ region_prefix' = region_prefix]_vars

C6_Witness ==
    /\ last.op = "save"
    /\ <<0, 0>> \in DOMAIN cache /\ cache[<<0, 0>>] = <<1, 0, 7>>
    /\ region_prefix = N_w_region_dir

\* C7: over an archive with no entry named `region`, new fails with "No
\* region/ folder found" and produces no provider.
C7_NoRegionFolder ==
    (pstate # "unbuilt" /\ Cardinality(RegionEntries) = 0) =>
        /\ pstate = "panicked"
        /\ last.op = "new" /\ last.result.kind = "NoRegionFolderFound"
        /\ region_prefix = None /\ cache = EmptyCache

C7_Witness ==
    /\ pstate = "panicked" /\ last.result.kind = "NoRegionFolderFound"
    /\ Len(zip_archive) = 2 /\ zip_archive[1].name = N_w_r00
    /\ RegionEntries = {}

\* C8: over an archive with more than one entry named `region`, in whatever
\* order, new fails with "Found more than one region/ folder" and produces
\* no provider.
C8_AmbiguousRegionFolder ==
    (pstate # "unbuilt" /\ Cardinality(RegionEntries) > 1) =>
        /\ pstate = "panicked"
        /\ last.op = "new" /\ last.result.kind = "AmbiguousRegionFolder"
        /\ region_prefix = None /\ cache = EmptyCache

C8_Witness ==
    /\ pstate = "panicked" /\ last.result.kind = "AmbiguousRegionFolder"
    /\ Len(zip_archive) = 3
    /\ zip_archive[1].name = N_b_region_dir
    /\ zip_archive[3].name = N_w_region_dir

\* C9 as stated: over an archive with exactly one entry named `region`, new
\* succeeds with an empty cache, the prefix is that entry's name, and the
\* prefix ends with "/".
C9_PrefixEndsWithSlash ==
    (pstate # "unbuilt" /\ Cardinality(RegionEntries) = 1) =>
        /\ pstate = "live"
        /\ (last.op = "new" => cache = EmptyCache)
        /\ \A i \in RegionEntries : region_prefix = zip_archive[i].name
        /\ EndsWithSlash(region_prefix)

\* C10: when read_to_end fails, load_chunk returns the I/O error and leaves
\* the cache as it was, without the region; the next load_chunk of that
\* region looks the entry up in the archive again.
C10_FailedReadLeavesCache ==
    [][LoadStep =>
          /\ (last'.reads = 1 /\ ~last'.readOk) =>
                /\ last'.result.kind = "IoError"
                /\ cache' = cache
                /\ <<last'.ro.region_x, last'.ro.region_z>> \notin DOMAIN cache'
          /\ (IsLoad /\ last.reads = 1 /\ ~last.readOk /\ last'.prevSame) =>
                (~last'.hit /\ last'.lookups = 1)]_vars

C10_Witness ==
    /\ IsLoad /\ last.prevSame
    /\ last.prevReads = 1 /\ ~last.prevReadOk
    /\ last.reads = 1 /\ last.readOk /\ last.result.kind = "Ok"
    /\ LastKey \in DOMAIN cache

\* the archive has an entry of the name the last load_chunk looked up
LastPathExists == \E i \in 1..Len(zip_archive) : zip_archive[i].name = last.path

\* C11: load_chunk returns RegionNotFound only when the archive has no entry
\* of the name it formed; a failure to open an entry that exists is another
\* error.
C11_NotFoundOnlyWhenAbsent ==
    (IsLoad /\ last.result.kind = "RegionNotFound") =>
        (last.lookups = 1 /\ ~LastPathExists)

\* C12: a step never removes a region from the cache and never changes the
\* bytes cached for a region.
C12_CacheOnlyGrows ==
    [][\A k \in DOMAIN cache : k \in DOMAIN cache' /\ cache'[k] = cache[k]]_vars

C12_Witness ==
    /\ DOMAIN cache = {<<0, 0>>, <<-1, 0>>}
    /\ cache[<<0, 0>>] = <<1, 0, 7>> /\ cache[<<-1, 0>>] = <<2, 1, 8>>
    /\ IsLoad /\ last.hit /\ ncalls = MaxCalls

DigitValue(ch) ==
    CASE ch = "0" -> 0 [] ch = "1" -> 1 [] ch = "2" -> 2 [] ch = "3" -> 3
      [] ch = "4" -> 4 [] ch = "5" -> 5 [] ch = "6" -> 6 [] ch = "7" -> 7
      [] ch = "8" -> 8 [] ch = "9" -> 9 [] OTHER -> -1

RECURSIVE DecimalValue(_)
DecimalValue(d) ==
    IF d = <<>> THEN 0
    ELSE DecimalValue(SubSeq(d, 1, Len(d) - 1)) * 10 + DigitValue(d[Len(d)])

\* s is the decimal numeral of n: a minus sign exactly when n < 0, then the
\* digits of |n| without leading zeros
IsDecimalOf(s, n) ==
    LET d == IF n < 0 THEN Tail(s) ELSE s
    IN  /\ Len(s) > 0
        /\ (n < 0 => s[1] = "-")
        /\ Len(d) > 0
        /\ \A i \in 1..Len(d) : DigitValue(d[i]) >= 0
        /\ (Len(d) > 1 => d[1] # "0")
        /\ DecimalValue(d) = (IF n < 0 THEN 0 - n ELSE n)

\* path is prefix, "r.", the numeral of x, ".", the numeral of z, ".mca"
IsRegionPath(path, prefix, x, z) ==
    LET mid == SubSeq(path, Len(prefix) + 3, Len(path) - 4)
    IN  /\ Len(path) >= Len(prefix) + 9
        /\ path = prefix \o <<"r", ".">> \o mid \o <<".", "m", "c", "a">>
        /\ \E i \in 2..(Len(mid) - 1) :
              /\ mid[i] = "."
              /\ IsDecimalOf(SubSeq(mid, 1, i - 1), x)
              /\ IsDecimalOf(SubSeq(mid, i + 1, Len(mid)), z)

PathStep == ncalls' = ncalls + 1 /\ last'.op = "region_path"

\* C13: region_path(region_x, region_z) is the prefix, "r.", region_x in
\* decimal, ".", region_z in decimal, ".mca", negative numbers with a minus
\* sign; the call changes nothing of the provider.  load_chunk looks up a
\* name of that form.
C13_RegionPathFormat ==
    [][/\ PathStep =>
            /\ IsRegionPath(last'.path, region_prefix, last'.ro.region_x,
                            last'.ro.region_z)
            /\ UNCHANGED <<zip_archive, pstate, region_prefix, cache>>
       /\ (LoadStep /\ last'.lookups = 1) =>
            IsRegionPath(last'.path, region_prefix, last'.ro.region_x,
                         last'.ro.region_z)]_vars

C13_Witness ==
    /\ last.op = "region_path"
    /\ last.ro.region_x = -2147483647 /\ last.ro.region_z = 10
    /\ region_prefix = N_w_region_dir
    /\ last.path = N_w_region_dir \o
          <<"r", ".", "-", "2", "1", "4", "7", "4", "8", "3", "6", "4", "7",
            ".", "1", "0", ".", "m", "c", "a">>
    /\ <<0, 0>> \in DOMAIN cache

\* C14 as stated, for the fixed-prefix mode with its default: construction
\* over an archive with no or with several `region` entries gives a provider
\* whose prefix is "region/".
C14_FixedPrefixConstruction ==
    (pstate # "unbuilt" /\ Cardinality(RegionEntries) # 1) =>
        (pstate = "live" /\ region_prefix = DefaultPrefix)

\* C15: the buffer cached for a region is the whole of what the entry
\* uncompresses to, of that length, whatever size the entry declares.
C15_FullBufferCached ==
    [][(LoadStep /\ last'.readOk) =>
          \E i \in 1..Len(zip_archive) :
             /\ zip_archive[i].name = last'.path
             /\ cache'[<<last'.ro.region_x, last'.ro.region_z>>]
                   = zip_archive[i].data
             /\ Len(cache'[<<last'.ro.region_x, last'.ro.region_z>>])
                   = Len(zip_archive[i].data)]_vars

C15_Witness ==
    /\ IsLoad /\ last.readOk /\ ncorrupt = 0
    /\ DOMAIN cache = {<<0, 0>>, <<-1, 0>>}
    /\ \E i, j \in 1..Len(zip_archive) :
          /\ zip_archive[i].name = N_w_r00
          /\ zip_archive[i].size < Len(cache[<<0, 0>>])
          /\ zip_archive[j].name = N_w_rm10
          /\ zip_archive[j].size > Len(cache[<<-1, 0>>])

\* what the region reader answers over the bytes buf for the offsets of the
\* last call: the error of its construction, or what read_chunk gives
ReaderAnswer(buf) ==
    IF AnvilRegionNew(buf)
    THEN ReadChunk(buf, last.ro.region_chunk_x, last.ro.region_chunk_z)
    ELSE Res("IoError", 0, 0, 0)

\* C16: when load_chunk has the region bytes, from the cache or from the
\* archive, it returns what the region reader answers for (region_chunk_x,
\* region_chunk_z): its errors and its payload unchanged.
C16_ReaderResultPropagated ==
    (IsLoad /\ (last.hit \/ last.readOk)) =>
        /\ LastKey \in DOMAIN cache
        /\ last.result = ReaderAnswer(cache[LastKey])

C16_Witness ==
    /\ IsLoad /\ last.hit
    /\ last.result = Res("ChunkNotFound", 1, 0, 0)
    /\ last.chunk_x = 1 /\ last.chunk_z = 0

\* C17: a region is cached once its entry has been read in full, also when
\* the call then fails in the region reader; a load_chunk of a cached
\* region is a hit that neither looks up nor reads anything in the archive.
C17_CachedBeforeReader ==
    [][LoadStep =>
          /\ last'.readOk =>
                <<last'.ro.region_x, last'.ro.region_z>> \in DOMAIN cache'
          /\ <<last'.ro.region_x, last'.ro.region_z>> \in DOMAIN cache =>
                (last'.hit /\ last'.lookups = 0 /\ last'.reads = 0)]_vars

C17_Witness ==
    /\ IsLoad /\ last.hit /\ last.prevSame /\ last.prevReadOk
    /\ cache[LastKey] = <<>>
    /\ last.result.kind = "IoError"

\* C18: every cached region is one whose entry region_path(region_x,
\* region_z) a load_chunk read in full, and it holds the bytes read then; a
\* load_chunk that returns RegionNotFound caches nothing, and the next call
\* for that region looks the entry up again.
C18_CacheHoldsWhatWasRead ==
    [][/\ \A k \in DOMAIN cache' :
            /\ k \in DOMAIN readLog' /\ cache'[k] = readLog'[k]
            /\ \E i \in 1..Len(zip_archive') :
                  IsRegionPath(zip_archive'[i].name, region_prefix', k[1], k[2])
       /\ (LoadStep /\ last'.result.kind = "RegionNotFound") =>
            /\ cache' = cache
            /\ <<last'.ro.region_x, last'.ro.region_z>> \notin DOMAIN cache'
       /\ (LoadStep /\ IsLoad /\ last.result.kind = "RegionNotFound"
             /\ last'.prevSame) =>
            (~last'.hit /\ last'.lookups = 1)]_vars

C18_Witness ==
    /\ IsLoad /\ last.prevSame /\ last.prevReads = 0
    /\ last.result = Res("RegionNotFound", 1, 0, 0) /\ last.lookups = 1
    /\ DOMAIN cache = {<<0, 0>>} /\ cache[<<0, 0>>] = readLog[<<0, 0>>]

\* the last call met no failure of the archive: by_name opened the entry if
\* there is one, and read_to_end read it all
LastCallUnfailed ==
    /\ ~(last.lookups = 1 /\ last.reads = 0 /\ LastPathExists)
    /\ ~(last.reads = 1 /\ ~last.readOk)

\* what a provider without cache returns for the last call's chunk: it opens
\* and reads the region's entry on every call
UncachedAnswer ==
    LET rx == IF last.chunk_x >= 0 THEN last.chunk_x \div 32
              ELSE 0 - ((31 - last.chunk_x) \div 32)
        rz == IF last.chunk_z >= 0 THEN last.chunk_z \div 32
              ELSE 0 - ((31 - last.chunk_z) \div 32)
        found == {i \in 1..Len(zip_archive) :
                    IsRegionPath(zip_archive[i].name, region_prefix, rx, rz)}
    IN  IF found = {} THEN Res("RegionNotFound", rx, rz, 0)
        ELSE ReaderAnswer(zip_archive[CHOOSE i \in found : TRUE].data)

\* C19: over an archive that does not change, a load_chunk that meets no
\* I/O failure returns what a provider without cache returns for that chunk,
\* on a hit as on a miss.
C19_CacheTransparent ==
    (IsLoad /\ ncorrupt = 0 /\ LastCallUnfailed) => last.result = UncachedAnswer

C19_Witness ==
    /\ IsLoad /\ ncorrupt = 0 /\ last.hit /\ last.prevSame /\ last.prevReadOk
    /\ last.chunk_x = -1
    /\ last.result = Res("Ok", 0, 0, 8)
    /\ last.result = UncachedAnswer
====
